---- MODULE Spec2Model ----
\* A model of tcping (MoeClub/tcping): the probing loop Ping.Do, the
\* aggregator Summary.Result / Summary.Stats and the interrupt handler,
\* in the three variants of the repository:
\*   "concurrent"  src/main.go            (lock, WaitGroup, go s.Result(p))
\*   "single"      src/unnamed/part_000   (recording inlined in Do, no lock)
\*   "plain"       src/unnamed/part_001   (no Summary and no signal handler)
EXTENDS Integers, Sequences, FiniteSets, Bags, TLC

\* ---------------------------------------------------------------- bounds
MaxCount == 3
MaxDur == 2
MaxSignals == 1
MaxUnbounded == 2

\* ------------------------------------------------------ program constants
ChanCap == 2
DivFault == 0 - 1
ErrOutcome == 0 - 1

\* the exit status of a process that died from a signal it does not handle
KilledStatus == 130

Variants == {"concurrent", "single", "plain"}
Counts == (0 - 1)..MaxCount
Intervals == {0, 1}
Durations == 0..MaxDur

\* the flags -p, -w and -n
Ports == {80}
Timeouts == {0, 1}
Nets == {"tcp"}

\* Addresses are sequences of characters, so that the ':' test and the
\* bracket wrapping of Resolver are computed and not assumed.
AddrV4 == <<"1", ".", "2">>
AddrV6 == <<":", ":", "1">>
EmptyAddr == << >>
LookupResults ==
  { [err |-> TRUE, addr |-> << >>],
    [err |-> FALSE, addr |-> << >>],
    [err |-> FALSE, addr |-> <<AddrV4>>],
    [err |-> FALSE, addr |-> <<AddrV6, AddrV4>>] }

VARIABLES
  variant,          \* which source file is running
  DefaultCount,     \* -c
  DefaultInterval,  \* -i
  DefaultPort,      \* -p
  DefaultTimeout,   \* -w
  DefaultNet,       \* -n
  p,                \* the Ping struct (addr, port, timeout, net)
  s,                \* the Summary struct (MAX, MIN, AVG, SUM, Count, ErrCount)
  Lock,             \* s.Lock: TRUE when locked
  WG,               \* s.WG counter
  i,                \* Do's loop counter
  pc,               \* position of the main goroutine
  tasks,            \* the bag of activations of Result (part_000: of the
                    \* inlined loop body); goroutines have no identity.
                    \* pc: the statement, Error/Duration: the outcome read,
                    \* tmp: the value loaded by +=, DAddr: the address dialed,
                    \* locked: the activation holds s.Lock
  c,                \* length of the signal channel
  sigs,             \* signals delivered to the process so far
  hpc,              \* position of the handler goroutine
  exited,           \* the process has ended
  status,           \* its exit status
  renders,          \* the summary lines printed so far
  logged,           \* Do printed the resolution error
  committed,        \* history: the aggregate when no recording was in progress
  recorded,         \* history: how many outcomes of each kind were recorded
  looked            \* history: the list that LookupHost returned

\* the flags: written by init(), only read afterwards
flags == <<variant, DefaultCount, DefaultInterval, DefaultPort, DefaultTimeout,
           DefaultNet>>

vars == <<flags, p, s, Lock, WG, i, pc, tasks,
          c, sigs, hpc, exited, status, renders, logged, committed, recorded,
          looked>>

Outcomes == Durations \cup {ErrOutcome}

\* ------------------------------------------------------------ helpers
ContainsColon(a) == \E k \in 1..Len(a) : a[k] = ":"

Bracket(a) == <<"[">> \o a \o <<"]">>

\* addr[0] as the last entry of the list
FirstEntryLast(addr) == addr[Len(addr)]

\* addr[0]
FirstEntry(addr) == addr[1]

\* Resolver: the value assigned to p.addr, given a successful non-empty lookup
ResolvedAddr(addr) ==
  IF ContainsColon(FirstEntry(addr)) THEN Bracket(FirstEntry(addr))
  ELSE FirstEntry(addr)

\* Resolver: the returned error (TRUE = non-nil)
ResolverErr(r) == r.err \/ Len(r.addr) = 0

\* strings.ToLower, on the transport names that occur
ToLower(n) == IF n = "TCP" THEN "tcp" ELSE IF n = "UDP" THEN "udp" ELSE n

\* Ping lines 104-112: the fields of the target after the lazy defaults
LazyDefaults(q) ==
  [q EXCEPT !.port = IF q.port <= 0 THEN DefaultPort ELSE q.port,
            !.timeout = IF q.timeout <= 0 THEN DefaultTimeout ELSE q.timeout,
            !.net = IF q.net = "" THEN DefaultNet ELSE q.net]

\* Ping lines 104-112 assign a field of the target
WritesTarget(q) == q.port <= 0 \/ q.timeout <= 0 \/ q.net = ""

\* stats.DAddr = fmt.Sprintf("%s:%d", p.addr, p.port): its two parts
DialAddr(q) == <<q.addr, q.port>>

GoDiv(a, b) == IF b = 0 THEN DivFault ELSE a \div b

\* Stats with the guard written count >= 0
StatsAVGGuardGE(sm) ==
  LET count == sm.Count - sm.ErrCount
  IN  IF count >= 0 THEN GoDiv(sm.SUM, count) ELSE sm.AVG

\* Summary.Stats: the value of s.AVG after lines 133-136
StatsAVG(sm) ==
  LET count == sm.Count - sm.ErrCount
  IN  IF count > 0 THEN GoDiv(sm.SUM, count) ELSE sm.AVG

\* Summary.Result line 147-149
NewMIN(sm, d) == IF sm.MIN > d \/ sm.MIN = 0 THEN d ELSE sm.MIN

\* MAX overwritten by every success
NewMAXLast(sm, d) == d

\* Summary.Result line 150-152
NewMAX(sm, d) == IF sm.MAX < d THEN d ELSE sm.MAX

Five(sm) == <<sm.MAX, sm.MIN, sm.SUM, sm.Count, sm.ErrCount>>

\* Count incremented in the success branch only
NewCountOkOnly(tmp, r) == IF r.Error THEN tmp ELSE tmp + 1

\* s.Count += 1: the stored value, from the loaded one
NewCount(tmp, r) == tmp + 1

\* s.SUM += stats.Duration: the stored value, from the loaded one
NewSUM(tmp, d) == tmp + d

\* the error counted under no heading
NewErrCountNone(tmp) == tmp

\* s.ErrCount += 1: the stored value, from the loaded one
NewErrCount(tmp) == tmp + 1

\* a lock that excludes nobody
CanLockAlways == TRUE

\* s.Lock.Lock() can return
CanLock == ~Lock

\* a Wait that does not wait
CanWaitAlways == TRUE

\* s.WG.Wait() can return
CanWait == WG = 0

\* the break test written with <
BudgetReachedLT(n, k) == n < k

\* if DefaultCount <= i { break }
BudgetReached(n, k) == n <= k

\* the summary deferred before the error check
AfterResolveDeferred(err) == IF err THEN "Stats" ELSE "Loop"

\* Do after p.Resolver(): return on error, before any defer is registered
AfterResolve(err) == IF err THEN "Return" ELSE "Loop"

Concurrent == variant = "concurrent" /\ DefaultInterval <= 0

Running == ~exited

\* ------------------------------------------------------------ Init
Init ==
  /\ variant \in Variants
  /\ DefaultCount \in Counts
  /\ DefaultInterval \in Intervals
  /\ DefaultPort \in Ports
  /\ DefaultTimeout \in Timeouts
  /\ DefaultNet \in Nets
  /\ p = [addr |-> EmptyAddr, port |-> DefaultPort, timeout |-> DefaultTimeout,
          net |-> IF variant = "plain" THEN DefaultNet
                  ELSE ToLower(DefaultNet)]
  /\ s = [MAX |-> 0, MIN |-> 0, AVG |-> 0, SUM |-> 0, Count |-> 0, ErrCount |-> 0]
  /\ Lock = FALSE
  /\ WG = 0
  /\ i = 0
  /\ pc = "Resolve"
  /\ tasks = EmptyBag
  /\ c = 0
  /\ sigs = 0
  /\ hpc = "Recv"
  /\ exited = FALSE
  /\ status = 0
  /\ renders = << >>
  /\ logged = FALSE
  /\ committed = s
  /\ recorded = [o \in Outcomes |-> 0]
  /\ looked = << >>

\* ------------------------------------------------------------ Do
\* Do: err := p.Resolver(); if err != nil { Println; return }
Resolver ==
  /\ Running /\ pc = "Resolve"
  /\ \E r \in LookupResults :
       /\ pc' = AfterResolve(ResolverErr(r))
       /\ IF ResolverErr(r)
          THEN /\ logged' = TRUE
               /\ p' = p
          ELSE /\ p' = [p EXCEPT !.addr = ResolvedAddr(r.addr)]
               /\ logged' = logged
       /\ looked' = r.addr
  /\ UNCHANGED <<flags, s, Lock, WG, i, tasks,
                 c, sigs, hpc, exited, status, renders, committed, recorded>>

\* the budget test written > 0 in every variant
CountedPositive == DefaultCount > 0

\* the budget test written >= 0 in every variant
CountedNonNeg == DefaultCount >= 0

\* the budget is counted: main.go 180 (DefaultCount >= 0), part_000 157 and
\* part_001 124 (DefaultCount > 0)
Counted == IF variant = "concurrent" THEN DefaultCount >= 0 ELSE DefaultCount > 0

\* the attempts started so far
Launched == BagCardinality(tasks)

\* the first statements of Result with the lock moved before the dial
ResultStepsLockFirst == <<"Lock", "Ping", "CountLoad">>

\* Result lines 142-144: stats := ping.Ping(); s.Lock.Lock(); s.Count += 1
ResultSteps == <<"Ping", "Lock", "CountLoad">>

\* the statement of Result that follows statement l
StepAfter(l) ==
  ResultSteps[1 + CHOOSE k \in 1..(Len(ResultSteps) - 1) : ResultSteps[k] = l]

\* the first statement of an activation: in part_000 and part_001 the loop
\* body starts with the dial and there is no lock
FirstStep == IF variant = "concurrent" THEN ResultSteps[1] ELSE "Ping"

NoDAddr == << >>

NewTask ==
  [pc |-> FirstStep, Error |-> FALSE, Duration |-> 0, tmp |-> 0, DAddr |-> NoDAddr,
   locked |-> FALSE]

\* the activation record once its outcome is consumed
Spent(l) ==
  [pc |-> l, Error |-> FALSE, Duration |-> 0, tmp |-> 0, DAddr |-> NoDAddr,
   locked |-> FALSE]

\* s.WG.Add(1) left out
WGAfterAddNone(n) == n

\* s.WG.Add(1)
WGAfterAdd(n) == n + 1

\* s.WG.Done() left out
WGAfterDoneNone(n) == n

\* s.WG.Done()
WGAfterDone(n) == n - 1

\* the number of attempts explored: the budget itself when the loop counts
\* (the largest is MaxCount), MaxUnbounded when the loop never breaks
AttemptCap == IF Counted /\ DefaultCount > 0 THEN MaxCount ELSE MaxUnbounded

\* Do, top of the loop body: s.WG.Add(1) and s.Result(p) / go s.Result(p)
\* (main.go 173-179); in part_000 and part_001 the body is inlined.
Launch ==
  /\ Running /\ pc = "Loop"
  /\ Launched < AttemptCap
  /\ tasks' = tasks (+) SetToBag({NewTask})
  /\ WG' = IF variant = "concurrent" THEN WGAfterAdd(WG) ELSE WG
  /\ pc' = IF Concurrent THEN "Budget" ELSE "Call"
  /\ UNCHANGED <<flags, looked, p, s, Lock, i,
                 c, sigs, hpc, exited, status, renders, logged, committed, recorded>>

\* the synchronous call (or the inlined body) has returned
Returned ==
  /\ Running /\ pc = "Call"
  /\ \A r \in BagToSet(tasks) : r.pc = "Ret"
  /\ pc' = IF variant = "concurrent" THEN "Sleep" ELSE "Budget"
  /\ UNCHANGED <<flags, looked, p, s, Lock, WG, i, tasks,
                 c, sigs, hpc, exited, status, renders, logged, committed, recorded>>

\* time.Sleep(DefaultInterval): main.go 176 (before the budget check),
\* part_000 163-165 (after it, only when interval > 0)
Sleep ==
  /\ Running /\ pc = "Sleep"
  /\ pc' = IF variant = "concurrent" THEN "Budget" ELSE "Loop"
  /\ UNCHANGED <<flags, looked, p, s, Lock, WG, i, tasks,
                 c, sigs, hpc, exited, status, renders, logged, committed, recorded>>

\* where the loop continues when it does not break
Continue ==
  IF variant # "concurrent" /\ DefaultInterval > 0 THEN "Sleep" ELSE "Loop"

\* where Do goes on break: the deferred s.WG.Wait() (main.go) or s.Stats()
\* (part_000); part_001 defers nothing
AfterLoop ==
  IF variant = "concurrent" THEN "Wait"
  ELSE IF variant = "single" THEN "Stats" ELSE "Return"

\* if DefaultCount >= 0 { i += 1; if DefaultCount <= i { break } }
Budget ==
  /\ Running /\ pc = "Budget"
  /\ IF Counted
     THEN /\ i' = i + 1
          /\ pc' = IF BudgetReached(DefaultCount, i + 1) THEN AfterLoop ELSE Continue
     ELSE /\ i' = i
          /\ pc' = Continue
  /\ UNCHANGED <<flags, looked, p, s, Lock, WG, tasks,
                 c, sigs, hpc, exited, status, renders, logged, committed, recorded>>

\* defer s.WG.Wait()
Wait ==
  /\ Running /\ pc = "Wait"
  /\ CanWait
  /\ pc' = "Stats"
  /\ UNCHANGED <<flags, looked, p, s, Lock, WG, i, tasks,
                 c, sigs, hpc, exited, status, renders, logged, committed, recorded>>

\* one call of Summary.Stats by goroutine who: AVG is updated and a line printed
Render(who) ==
  /\ s' = [s EXCEPT !.AVG = StatsAVG(s)]
  /\ renders' = Append(renders, who)

\* defer s.Stats()
DoStats ==
  /\ Running /\ pc = "Stats"
  /\ Render("Do")
  /\ pc' = "Return"
  /\ UNCHANGED <<flags, looked, p, Lock, WG, i, tasks,
                 c, sigs, hpc, exited, status, logged, committed, recorded>>

\* Do returns to main, main returns: the process ends with status 0
MainReturn ==
  /\ Running /\ pc = "Return"
  /\ exited' = TRUE
  /\ status' = 0
  /\ pc' = "Exited"
  /\ UNCHANGED <<flags, looked, p, s, Lock, WG, i, tasks,
                 c, sigs, hpc, renders, logged, committed, recorded>>

\* ------------------------------------------------------------ Result
\* one activation in state t moves to state r
SetTask(t, r) == tasks' = (tasks (-) SetToBag({t})) (+) SetToBag({r})

TaskAt(t, l) == Running /\ BagIn(t, tasks) /\ t.pc = l

\* where an activation goes when the dial has returned: part_001 only prints
AfterPing ==
  IF variant = "concurrent" THEN StepAfter("Ping")
  ELSE IF variant = "single" THEN "CountLoad" ELSE "Ret"

\* stats := ping.Ping(): the lazy defaults are assigned, the address to dial
\* is formatted and the dial returns. stats is local to the activation and
\* its outcome is not read before line 145: the outcome (an error, or a
\* duration) is drawn there, in CountStore.
Ping(t) ==
  /\ TaskAt(t, "Ping")
  /\ p' = IF p.addr = EmptyAddr THEN p ELSE LazyDefaults(p)
  /\ SetTask(t, IF AfterPing = "Ret" THEN Spent("Ret")
                ELSE [t EXCEPT !.pc = AfterPing, !.DAddr = DialAddr(p')])
  /\ UNCHANGED <<flags, looked, s, Lock, WG, i, pc,
                 c, sigs, hpc, exited, status, renders, logged, committed, recorded>>

\* s.Lock.Lock()
LockAcquire(t) ==
  /\ TaskAt(t, "Lock")
  /\ CanLock
  /\ Lock' = TRUE
  /\ SetTask(t, [t EXCEPT !.pc = StepAfter("Lock"), !.locked = TRUE])
  /\ UNCHANGED <<flags, looked, p, s, WG, i, pc,
                 c, sigs, hpc, exited, status, renders, logged, committed, recorded>>

\* s.Count += 1, the load
CountLoad(t) ==
  /\ TaskAt(t, "CountLoad")
  /\ SetTask(t, [t EXCEPT !.tmp = s.Count, !.pc = "CountStore"])
  /\ UNCHANGED <<flags, looked, p, s, Lock, WG, i, pc,
                 c, sigs, hpc, exited, status, renders, logged, committed, recorded>>

\* what a dial can return: Ping lines 100-103 return "invalid host" without
\* dialing when the target has no address
DialOutcomes == IF p.addr = EmptyAddr THEN {ErrOutcome} ELSE Outcomes

\* the Stats value that Ping returned: outcome o is an error or a duration
Dialed(o) == [Error |-> (o = ErrOutcome), Duration |-> IF o = ErrOutcome THEN 0 ELSE o]

\* s.Count += 1, the store; then if stats.Error == nil
CountStore(t) ==
  /\ TaskAt(t, "CountStore")
  /\ \E o \in DialOutcomes :
       /\ s' = [s EXCEPT !.Count = NewCount(t.tmp, Dialed(o))]
       /\ SetTask(t, [t EXCEPT !.Error = Dialed(o).Error,
                      !.Duration = Dialed(o).Duration, !.tmp = 0,
                      !.pc = IF Dialed(o).Error THEN "ErrLoad" ELSE "Min"])
  /\ UNCHANGED <<flags, looked, p, Lock, WG, i, pc,
                 c, sigs, hpc, exited, status, renders, logged, committed, recorded>>

\* if s.MIN > stats.Duration || s.MIN == 0 { s.MIN = stats.Duration }
Min(t) ==
  /\ TaskAt(t, "Min")
  /\ s' = [s EXCEPT !.MIN = NewMIN(s, t.Duration)]
  /\ SetTask(t, [t EXCEPT !.pc = "Max"])
  /\ UNCHANGED <<flags, looked, p, Lock, WG, i, pc,
                 c, sigs, hpc, exited, status, renders, logged, committed, recorded>>

\* if s.MAX < stats.Duration { s.MAX = stats.Duration }
Max(t) ==
  /\ TaskAt(t, "Max")
  /\ s' = [s EXCEPT !.MAX = NewMAX(s, t.Duration)]
  /\ SetTask(t, [t EXCEPT !.pc = "SumLoad"])
  /\ UNCHANGED <<flags, looked, p, Lock, WG, i, pc,
                 c, sigs, hpc, exited, status, renders, logged, committed, recorded>>

\* s.SUM += stats.Duration, the load
SumLoad(t) ==
  /\ TaskAt(t, "SumLoad")
  /\ SetTask(t, [t EXCEPT !.tmp = s.SUM, !.pc = "SumStore"])
  /\ UNCHANGED <<flags, looked, p, s, Lock, WG, i, pc,
                 c, sigs, hpc, exited, status, renders, logged, committed, recorded>>

\* the outcome of an activation, as a key of recorded
Key(r) == IF r.Error THEN ErrOutcome ELSE r.Duration

\* history: the activation t has applied its whole outcome to the aggregate
Commit(t) ==
  /\ committed' = s'
  /\ recorded' = [recorded EXCEPT ![Key(t)] = @ + 1]

\* without a lock the recording is complete after its last store
CommitIfNoLock(t) ==
  IF variant = "concurrent" THEN UNCHANGED <<committed, recorded>> ELSE Commit(t)

\* the activation after its last store
Recorded(t) ==
  IF variant = "concurrent" THEN [t EXCEPT !.pc = "Unlock", !.tmp = 0]
  ELSE Spent("Ret")

\* s.SUM += stats.Duration, the store
SumStore(t) ==
  /\ TaskAt(t, "SumStore")
  /\ s' = [s EXCEPT !.SUM = NewSUM(t.tmp, t.Duration)]
  /\ SetTask(t, Recorded(t))
  /\ CommitIfNoLock(t)
  /\ UNCHANGED <<flags, looked, p, Lock, WG, i, pc,
                 c, sigs, hpc, exited, status, renders, logged>>

\* s.ErrCount += 1, the load
ErrLoad(t) ==
  /\ TaskAt(t, "ErrLoad")
  /\ SetTask(t, [t EXCEPT !.tmp = s.ErrCount, !.pc = "ErrStore"])
  /\ UNCHANGED <<flags, looked, p, s, Lock, WG, i, pc,
                 c, sigs, hpc, exited, status, renders, logged, committed, recorded>>

\* s.ErrCount += 1, the store
ErrStore(t) ==
  /\ TaskAt(t, "ErrStore")
  /\ s' = [s EXCEPT !.ErrCount = NewErrCount(t.tmp)]
  /\ SetTask(t, Recorded(t))
  /\ CommitIfNoLock(t)
  /\ UNCHANGED <<flags, looked, p, Lock, WG, i, pc,
                 c, sigs, hpc, exited, status, renders, logged>>

\* s.Lock.Unlock()
Unlock(t) ==
  /\ TaskAt(t, "Unlock")
  /\ Lock' = FALSE
  /\ s' = s
  /\ Commit(t)
  /\ SetTask(t, Spent("Done"))
  /\ UNCHANGED <<flags, looked, p, WG, i, pc,
                 c, sigs, hpc, exited, status, renders, logged>>

\* return; the deferred s.WG.Done()
Done(t) ==
  /\ TaskAt(t, "Done")
  /\ WG' = WGAfterDone(WG)
  /\ SetTask(t, [t EXCEPT !.pc = "Ret"])
  /\ UNCHANGED <<flags, looked, p, s, Lock, i, pc,
                 c, sigs, hpc, exited, status, renders, logged, committed, recorded>>

\* ------------------------------------------------------------ Interrupt
\* the environment delivers SIGINT/SIGTERM; signal.Notify queues it on c
\* without blocking (a full channel drops it)
\* part_001 installs no handler: the signal ends the process
Handled == variant # "plain"

Signal ==
  /\ Running
  /\ sigs < MaxSignals
  /\ sigs' = sigs + 1
  /\ c' = IF Handled /\ c < ChanCap THEN c + 1 ELSE c
  /\ exited' = ~Handled
  /\ status' = IF Handled THEN status ELSE KilledStatus
  /\ UNCHANGED <<flags, looked, p, s, Lock, WG, i, pc, tasks,
                 hpc, renders, logged, committed, recorded>>

\* <-c
HandlerRecv ==
  /\ Running /\ Handled /\ hpc = "Recv"
  /\ c > 0
  /\ c' = c - 1
  /\ hpc' = "Stats"
  /\ UNCHANGED <<flags, looked, p, s, Lock, WG, i, pc, tasks,
                 sigs, exited, status, renders, logged, committed, recorded>>

\* s.Stats()
HandlerStats ==
  /\ Running /\ hpc = "Stats"
  /\ Render("Interrupt")
  /\ hpc' = "Exit"
  /\ UNCHANGED <<flags, looked, p, Lock, WG, i, pc, tasks,
                 c, sigs, exited, status, logged, committed, recorded>>

\* os.Exit(1)
HandlerExit ==
  /\ Running /\ hpc = "Exit"
  /\ exited' = TRUE
  /\ status' = 1
  /\ hpc' = "Exited"
  /\ UNCHANGED <<flags, looked, p, s, Lock, WG, i, pc, tasks,
                 c, sigs, renders, logged, committed, recorded>>

\* ------------------------------------------------------------ Spec

Next ==
  \/ Resolver
  \/ Launch
  \/ Returned
  \/ Sleep
  \/ Budget
  \/ Wait
  \/ DoStats
  \/ MainReturn
  \/ \E t \in BagToSet(tasks) : Ping(t)
  \/ \E t \in BagToSet(tasks) : LockAcquire(t)
  \/ \E t \in BagToSet(tasks) : CountLoad(t)
  \/ \E t \in BagToSet(tasks) : CountStore(t)
  \/ \E t \in BagToSet(tasks) : Min(t)
  \/ \E t \in BagToSet(tasks) : Max(t)
  \/ \E t \in BagToSet(tasks) : SumLoad(t)
  \/ \E t \in BagToSet(tasks) : SumStore(t)
  \/ \E t \in BagToSet(tasks) : ErrLoad(t)
  \/ \E t \in BagToSet(tasks) : ErrStore(t)
  \/ \E t \in BagToSet(tasks) : Unlock(t)
  \/ \E t \in BagToSet(tasks) : Done(t)
  \/ Signal
  \/ HandlerRecv
  \/ HandlerStats
  \/ HandlerExit

Spec == Init /\ [][Next]_vars

\* the steps of the main goroutine
DoStep ==
  \/ Resolver
  \/ Launch
  \/ Returned
  \/ Sleep
  \/ Budget
  \/ Wait
  \/ DoStats
  \/ MainReturn

\* the steps of the activations of Result
ResultStep ==
  \E t \in BagToSet(tasks) :
    \/ Ping(t) \/ LockAcquire(t) \/ CountLoad(t) \/ CountStore(t)
    \/ Min(t) \/ Max(t) \/ SumLoad(t) \/ SumStore(t)
    \/ ErrLoad(t) \/ ErrStore(t) \/ Unlock(t) \/ Done(t)

\* a run in which no signal is delivered: the handler stays blocked on <-c
NoInterrupt == DoStep \/ ResultStep

\* The Go scheduler runs every runnable goroutine eventually, a dial returns
\* (connected, refused or timed out) and a sleep ends: the main goroutine and
\* the activations keep taking steps while they can.
FairSpec ==
  Init /\ [][NoInterrupt]_vars /\ WF_vars(DoStep) /\ WF_vars(ResultStep)

\* ------------------------------------------------------------ vocabulary
RECURSIVE SuccUpTo(_)
SuccUpTo(d) == IF d < 0 THEN 0 ELSE recorded[d] + SuccUpTo(d - 1)

RECURSIVE SumUpTo(_)
SumUpTo(d) == IF d < 0 THEN 0 ELSE d * recorded[d] + SumUpTo(d - 1)

\* the number of successful outcomes recorded, and the sum of their durations
SuccCount == SuccUpTo(MaxDur)
SuccSum == SumUpTo(MaxDur)
NRecorded == SuccCount + recorded[ErrOutcome]

\* the successful durations recorded so far
RecDurs == {d \in Durations : recorded[d] > 0}

RecordingPcs ==
  {"CountStore", "Min", "Max", "SumLoad", "SumStore", "ErrLoad", "ErrStore", "Unlock"}

\* no activation is in the middle of recording its outcome
AtRest == \A t \in BagToSet(tasks) : t.pc \notin RecordingPcs

\* the aggregator's lock is free (part_000 has no lock: between recordings)
Free == ~Lock /\ (variant = "single" => AtRest)

\* the variants that keep a Summary and install the interrupt handler
HasSummary == variant \in {"concurrent", "single"}

Resolved == p.addr # EmptyAddr
ResolveFailed == pc # "Resolve" /\ p.addr = EmptyAddr
AllReturned == \A t \in BagToSet(tasks) : t.pc = "Ret"

\* the activations that have not returned
InFlight == BagCardinality(tasks) - CopiesIn(Spent("Ret"), tasks)
ZeroSummary ==
  [MAX |-> 0, MIN |-> 0, AVG |-> 0, SUM |-> 0, Count |-> 0, ErrCount |-> 0]

Min2(a, b) == IF a < b THEN a ELSE b
Max2(a, b) == IF a > b THEN a ELSE b

RECURSIVE MinOf(_)
MinOf(S) == IF Cardinality(S) = 1 THEN CHOOSE x \in S : TRUE
            ELSE LET x == CHOOSE y \in S : TRUE IN Min2(x, MinOf(S \ {x}))

RECURSIVE MaxOf(_)
MaxOf(S) == IF Cardinality(S) = 1 THEN CHOOSE x \in S : TRUE
            ELSE LET x == CHOOSE y \in S : TRUE IN Max2(x, MaxOf(S \ {x}))

TypeOK ==
  /\ variant \in Variants
  /\ Lock \in BOOLEAN
  /\ WG \in 0..MaxCount
  /\ Len(renders) <= 2

\* ------------------------------------------------------------ claims

\* C1: in concurrent mode with a positive count N and no interrupt, once Do
\* has rendered its summary exactly N tasks were launched, all have returned,
\* and the aggregate has Count = N and ErrCount + successes = N.
C1_NoLostOutcome ==
  (Concurrent /\ DefaultCount > 0 /\ sigs = 0 /\ Len(renders) > 0) =>
     /\ Launched = DefaultCount
     /\ AllReturned
     /\ s.Count = DefaultCount
     /\ s.ErrCount + SuccCount = DefaultCount

C1_Witness ==
  /\ Concurrent /\ DefaultCount = MaxCount /\ sigs = 0
  /\ renders = <<"Do">> /\ pc = "Return"
  /\ s.Count = MaxCount /\ s.ErrCount > 0 /\ SuccCount > 0

\* C2 (as claimed): when resolution succeeded the summary is rendered exactly
\* once over the process lifetime: never twice, and once when the process ended.
C2_RenderedExactlyOnce ==
  (HasSummary /\ Resolved) => /\ Len(renders) <= 1
                              /\ (exited => Len(renders) = 1)

\* C3 (as claimed): after the first recorded success, MIN and MAX are the
\* minimum and maximum of the successful durations recorded, zero included.
C3_MinMaxOfRecorded ==
  (Free /\ SuccCount > 0) =>
     /\ \A d \in RecDurs : s.MIN <= d /\ d <= s.MAX
     /\ s.MIN = MinOf(RecDurs)
     /\ s.MAX = MaxOf(RecDurs)

\* C4 (as claimed): every summary rendered in the locked variant observes the
\* five fields as they were after a whole number of applied outcomes.
C4_ConsistentObservation ==
  [][(variant = "concurrent" /\ renders' # renders) => Five(s) = Five(committed)]_vars

\* C5: whenever the lock is free, Count is the number of recorded outcomes
\* and Count = recorded successes + ErrCount.
C5_CountIsRecorded ==
  Free => /\ s.Count = NRecorded
          /\ s.Count = SuccCount + s.ErrCount

C5_Witness ==
  /\ Free /\ Concurrent /\ Launched = MaxCount
  /\ s.Count = 2 /\ s.ErrCount = 1 /\ SuccCount = 1
  /\ \E t \in BagToSet(tasks) : t.pc = "Lock"

\* C6: whenever the lock is free, SUM is the sum of the durations of the
\* successful outcomes recorded so far.
C6_SumOfRecorded == Free => s.SUM = SuccSum

C6_Witness ==
  /\ Free /\ Concurrent /\ recorded[ErrOutcome] > 0
  /\ recorded[1] > 0 /\ recorded[MaxDur] > 0 /\ s.SUM = 1 + MaxDur

\* C7: every call of Stats renders Avg = SUM / (Count - ErrCount) when
\* Count - ErrCount > 0 and Avg = 0 otherwise, and never divides by zero.
C7_Average ==
  [][renders' # renders =>
       LET cnt == s.Count - s.ErrCount
       IN  /\ s'.AVG # DivFault
           /\ s'.AVG = IF cnt > 0 THEN s.SUM \div cnt ELSE 0]_vars

C7_Witness ==
  /\ Len(renders) = 2 /\ s.Count - s.ErrCount > 1 /\ s.ErrCount > 0
  /\ s.AVG > 0 /\ s.AVG * (s.Count - s.ErrCount) < s.SUM

\* C8 (as claimed): when resolution fails no probe is attempted, the aggregate
\* is unchanged and no summary line is printed in the process lifetime.
C8_NoSummaryAtAll ==
  ResolveFailed => /\ logged /\ Launched = 0 /\ s = ZeroSummary
                   /\ Len(renders) = 0

\* C8 (amended): when resolution fails Do logs the error, attempts no probe,
\* leaves the aggregate unchanged and prints no summary itself; the only
\* summary line such a run can print is the interrupt handler's, after a signal.
C8_NoSummaryByDo ==
  ResolveFailed => /\ logged /\ Launched = 0 /\ s = ZeroSummary
                   /\ pc \in {"Return", "Exited"}
                   /\ (renders = << >> \/ (renders = <<"Interrupt">> /\ sigs > 0))

C8_Witness ==
  ResolveFailed /\ exited /\ status = 0 /\ renders = << >> /\ logged

\* C9: with a positive count N and no interrupt the loop makes exactly N
\* attempts and then Do renders one summary; in the serialized mode every
\* attempt but the latest has returned (at most one probe in flight).
C9_ExactlyNThenSummary ==
  (HasSummary /\ DefaultCount > 0 /\ sigs = 0) =>
     /\ Launched <= DefaultCount
     /\ Len(renders) <= 1
     /\ (Len(renders) = 1 =>
           Launched = DefaultCount /\ AllReturned /\ NRecorded = DefaultCount)
     /\ ((exited /\ Resolved) => renders = <<"Do">>)
     /\ (~Concurrent => InFlight <= 1)

C9_Witness ==
  /\ DefaultCount = 3 /\ DefaultInterval = 0 /\ variant = "single" /\ sigs = 0
  /\ exited /\ renders = <<"Do">> /\ Launched = 3 /\ s.Count = 3

\* C10 (as claimed): a process that ends after a signal was delivered ends
\* with status 1 after the handler's summary; status 0 only when the budget
\* was exhausted and no signal was delivered.
C10_ExitStatus ==
  (HasSummary /\ exited) =>
            /\ (sigs > 0 => status = 1 /\ renders # << >>
                            /\ renders[Len(renders)] = "Interrupt")
            /\ (status = 0 => sigs = 0 /\ Counted /\ i >= DefaultCount)
\* C11: a failed dial never aborts the loop. With a positive count N and no
\* interrupt, at the top of the loop the attempts made equal the budget
\* counter, fewer than N, and the next attempt can start whatever was
\* recorded; when Do has returned exactly N attempts were made, all N outcomes
\* are recorded, every error as one failed outcome, and the summary is out.
C11_ErrorsNeverAbort ==
  (HasSummary /\ DefaultCount > 0 /\ Resolved /\ sigs = 0) =>
     /\ (pc = "Loop" => Launched = i /\ i < DefaultCount /\ ENABLED Launch)
     /\ (Free => s.ErrCount = recorded[ErrOutcome])
     /\ (pc \in {"Return", "Exited"} =>
           /\ Launched = DefaultCount /\ i = DefaultCount
           /\ NRecorded = DefaultCount
           /\ s.ErrCount = recorded[ErrOutcome]
           /\ renders = <<"Do">>)

C11_Witness ==
  /\ variant = "concurrent" /\ DefaultInterval > 0 /\ DefaultCount = MaxCount
  /\ sigs = 0 /\ pc = "Exited" /\ status = 0
  /\ recorded[ErrOutcome] = MaxCount /\ s.ErrCount = MaxCount /\ s.Count = MaxCount

\* the activations that hold the lock
Holders == {t \in BagToSet(tasks) : t.locked}
NHolders == BagCardinality([t \in Holders |-> CopiesIn(t, tasks)])

\* C13: the lock is never held by an activation that is dialing. The lock is
\* held exactly when one activation holds it, that activation is past the
\* dial and inside lines 144-159, and an activation that waits for the lock
\* while every other one is dialing can take it.
C13_NoLockWhileDialing ==
  variant = "concurrent" =>
     /\ \A t \in BagToSet(tasks) : t.pc = "Ping" => ~t.locked
     /\ Lock <=> NHolders = 1
     /\ NHolders <= 1
     /\ \A t \in Holders : t.pc \in RecordingPcs \cup {"CountLoad"}
     /\ \A t \in BagToSet(tasks) :
          (t.pc = "Lock" /\ ~exited
             /\ \A u \in BagToSet(tasks) : u.pc \in {"Ping", "Lock", "Done", "Ret"})
          => ENABLED LockAcquire(t)

C13_Witness ==
  /\ Concurrent /\ Lock /\ NHolders = 1
  /\ \E t \in BagToSet(tasks) : t.pc = "Ping"
  /\ \E t \in BagToSet(tasks) : t.pc = "Lock"
  /\ \E t \in BagToSet(tasks) : t.pc = "SumStore" /\ t.locked

\* Do's deferred summary has been printed
DoRendered == \E k \in 1..Len(renders) : renders[k] = "Do"

\* C14: in main.go the WaitGroup counter is never negative and equals the
\* number of launched activations that have not returned (one Add before each
\* launch, one Done per activation); once Do's summary is printed every
\* launched activation has returned with its outcome recorded, and no step
\* after it changes Count, ErrCount, MIN, MAX or SUM.
C14_JoinBeforeSummary ==
  /\ [](variant = "concurrent" =>
          /\ WG >= 0 /\ WG = InFlight
          /\ (DoRendered => /\ AllReturned /\ WG = 0 /\ ~Lock
                            /\ NRecorded = Launched
                            /\ Five(s) = Five(committed)))
  /\ [][(variant = "concurrent" /\ DoRendered) =>
          (Five(s') = Five(s) /\ tasks' = tasks)]_vars

C14_Witness ==
  /\ Concurrent /\ Launched = MaxCount /\ WG = 0 /\ renders = <<"Do">>
  /\ NRecorded = MaxCount /\ recorded[ErrOutcome] = 0 /\ pc = "Return"

\* the number of activations about to run Ping() on the one target p
NDialing ==
  BagCardinality([t \in {u \in BagToSet(tasks) : u.pc = "Ping"} |->
                    CopiesIn(t, tasks)])

\* two goroutines started by `go s.Result(p)` are about to run Ping lines
\* 104-112 on the same *Ping, which assign a field that both also read
TargetRace ==
  /\ Concurrent /\ ~exited /\ Resolved
  /\ NDialing >= 2
  /\ WritesTarget(p)

\* C15 (as claimed): in concurrent mode no two tasks access the same field of
\* the probe target with one of them writing.
C15_TargetNeverShared == ~TargetRace

\* the address inside the brackets that Resolver puts around an IPv6 address
Unbracket(a) ==
  IF Len(a) >= 2 /\ a[1] = "[" /\ a[Len(a)] = "]" THEN SubSeq(a, 2, Len(a) - 1)
  ELSE a

\* C16: the target's address is written once, by the Resolver, before the
\* first attempt, and never again; it is the first entry of the lookup result
\* (in brackets when it is an IPv6 address), and every probe of the run dials
\* it, also after failed dials.
C16_AddrWrittenOnce ==
  /\ [][p'.addr # p.addr =>
          /\ pc = "Resolve" /\ p.addr = EmptyAddr /\ Launched = 0
          /\ looked = << >> /\ pc' = "Loop"]_vars
  /\ [](Launched > 0 => Resolved)
  /\ [](Resolved =>
          /\ Len(looked) > 0 /\ Unbracket(p.addr) = looked[1]
          /\ \A t \in BagToSet(tasks) :
                t.DAddr # NoDAddr => t.DAddr = <<p.addr, p.port>>)

C16_Witness ==
  /\ looked = <<AddrV6, AddrV4>> /\ p.addr = Bracket(AddrV6)
  /\ recorded[ErrOutcome] > 0
  /\ \E t \in BagToSet(tasks) : t.DAddr = <<Bracket(AddrV6), DefaultPort>>

\* C17: recording an error outcome adds one to Count and to ErrCount and
\* leaves MIN, MAX and SUM as they were; recording a success of duration d
\* adds one to Count, leaves ErrCount as it was, adds d to SUM, makes MAX the
\* larger of MAX and d, and leaves MIN or sets it to d, never above d.
C17_RecordingFrame ==
  [][recorded' # recorded =>
       \E o \in Outcomes :
          /\ recorded' = [recorded EXCEPT ![o] = @ + 1]
          /\ s'.Count = committed.Count + 1
          /\ IF o = ErrOutcome
             THEN /\ s'.ErrCount = committed.ErrCount + 1
                  /\ s'.MIN = committed.MIN
                  /\ s'.MAX = committed.MAX
                  /\ s'.SUM = committed.SUM
             ELSE /\ s'.ErrCount = committed.ErrCount
                  /\ s'.SUM = committed.SUM + o
                  /\ s'.MAX = Max2(committed.MAX, o)
                  /\ s'.MIN \in {committed.MIN, o}
                  /\ s'.MIN <= o]_vars

C17_Witness ==
  /\ variant = "concurrent" /\ Free /\ renders = << >>
  /\ recorded[ErrOutcome] = 1 /\ recorded[1] = 1 /\ recorded[MaxDur] = 1
  /\ s.Count = 3 /\ s.ErrCount = 1 /\ s.SUM = 1 + MaxDur
  /\ s.MAX = MaxDur /\ s.MIN = 1

\* the variants whose loop body runs in the main goroutine only
SingleThreaded == variant \in {"single", "plain"}

LoopPcs == {"Loop", "Call", "Budget", "Sleep"}

\* C12: in the single-threaded variants (part_000, part_001) a count of zero
\* or below makes the loop unbounded: in a run without an interrupt Do never
\* leaves the loop, the budget counter is never incremented, the process
\* does not end, and the number of attempts reaches every bound explored.
C12_UnboundedWhenNotPositive ==
  /\ []((SingleThreaded /\ DefaultCount <= 0 /\ Resolved) =>
          /\ pc \in LoopPcs /\ i = 0 /\ ~exited /\ renders = << >>
          /\ Launched <= MaxUnbounded)
  /\ <>(~SingleThreaded \/ DefaultCount > 0 \/ ResolveFailed
          \/ Launched = MaxUnbounded)

C12_Witness ==
  /\ variant = "single" /\ DefaultCount = 0 /\ pc = "Loop" /\ ~exited
  /\ Launched = MaxUnbounded /\ s.Count = MaxUnbounded /\ i = 0

\* Do has finished: the loop exited, the wait for the outstanding probes
\* ended and the summary is rendered (part_001 has none)
Finished ==
  /\ pc \in {"Return", "Exited"}
  /\ AllReturned /\ WG = 0 /\ ~Lock
  /\ (HasSummary => renders = <<"Do">>)

\* C18: with a positive count, a successful resolution, no interrupt and
\* every dial returning, Do eventually finishes, in interval mode and in
\* concurrent mode: the loop exits, the wait for the outstanding probes ends
\* and the summary is rendered; until the process has ended some goroutine
\* can always take a step (no deadlock on the lock or the WaitGroup).
C18_EventuallyFinished ==
  /\ <>(DefaultCount <= 0 \/ ResolveFailed \/ (Resolved /\ Finished))
  /\ []((DefaultCount > 0 /\ pc # "Exited") => ENABLED NoInterrupt)

C18_Witness ==
  /\ variant = "concurrent" /\ DefaultInterval > 0 /\ DefaultCount = MaxCount
  /\ Resolved /\ Finished /\ pc = "Return" /\ sigs = 0
  /\ recorded[0] > 0 /\ recorded[ErrOutcome] > 0

\* C19 (safety): in main.go a count of 0 gives at most one attempt, and
\* exactly one, recorded, when Do has left the loop; a negative count keeps Do
\* in the loop with the counter untouched, and in concurrent mode Do launches
\* without waiting for any activation.
C19_Budget ==
  (variant = "concurrent" /\ Resolved) =>
     /\ (DefaultCount = 0 =>
           /\ Launched <= 1
           /\ (pc = "Loop" => Launched = 0)
           /\ (pc \in {"Wait", "Stats", "Return", "Exited"} =>
                 Launched = 1 /\ i = 1)
           /\ (DoRendered => NRecorded = 1 /\ s.Count = 1))
     /\ (DefaultCount < 0 =>
           /\ pc \in LoopPcs /\ i = 0 /\ ~DoRendered
           /\ (exited => sigs > 0)
           /\ (Concurrent => pc \in {"Loop", "Budget"})
           /\ ((pc = "Loop" /\ ~exited /\ Launched < MaxUnbounded) =>
                 ENABLED Launch))

\* C19: in main.go the budget test is DefaultCount >= 0, then i += 1, then
\* break when DefaultCount <= i. In a run without an interrupt a count of 0
\* makes Do perform exactly one attempt and then finish, and a negative
\* count makes the loop never exit: the attempts reach every bound explored,
\* in concurrent mode with all of them still in flight.
C19_ZeroIsOneNegativeIsUnbounded ==
  /\ []C19_Budget
  /\ <>(variant # "concurrent" \/ DefaultCount # 0 \/ ResolveFailed
          \/ (Resolved /\ Finished /\ Launched = 1 /\ pc = "Exited"))
  /\ <>(variant # "concurrent" \/ DefaultCount >= 0 \/ ResolveFailed
          \/ Launched = MaxUnbounded)

C19_Witness ==
  /\ variant = "concurrent" /\ DefaultCount = 0 /\ DefaultInterval = 0
  /\ pc = "Exited" /\ status = 0 /\ Launched = 1 /\ i = 1
  /\ renders = <<"Do">> /\ s.Count = 1

C19_WitnessNegative ==
  /\ Concurrent /\ DefaultCount < 0 /\ pc = "Loop" /\ ~exited
  /\ Launched = MaxUnbounded /\ NDialing = MaxUnbounded
====
